---- MODULE Spec2Model ----
(***************************************************************************)
(* Analysis lifecycle controller of the comment-analysis frontend          *)
(* (frontend/src/contexts/AnalysisContext.tsx, the provider with resume).  *)
(*                                                                         *)
(* The provider is a React function component.  Its state is the pair      *)
(* (analysisStatus, pollingInterval); every operation is an async function *)
(* that closes over the values of the render it was created in, so an      *)
(* operation is modelled as a Call step (the synchronous prefix up to the  *)
(* await) and a Return step (the continuation, which still sees the        *)
(* snapshot taken at the call).  The two useEffect hooks run after a       *)
(* commit, as a step of their own (RunEffects).  setInterval timers, the   *)
(* requests in flight, localStorage and the remote analysis service are    *)
(* part of the state.  The backend switcher (services/backendSwitcher.ts), *)
(* the base URL of the API client (services/api.ts) and the model switch   *)
(* of the Analysis page (components/ModelSwitcher.tsx), which calls        *)
(* stopAnalysis() and clearAnalysis() before it changes the backend, are   *)
(* modelled with it.                                                       *)
(***************************************************************************)
EXTENDS Integers, Sequences, FiniteSets, TLC

\* ---------------------------------------------------------------- bounds
MaxUnits == 1      \* comments of a job on the service
MaxPending == 1    \* requests in flight per kind: operation, tick, refresh
MaxUserOps == 2    \* operations invoked in one run

JobName == <<"A", "B">>
JobIds == {JobName[i] : i \in 1..Len(JobName)}
NoId == ""
NoTimer == 0

VARIABLES
  analysisStatus,   \* React state: the tracked job or Null
  pollingInterval,  \* React state: the timer handle or NoTimer
  storage,          \* localStorage item 'analysisStatus'
  timers,           \* armed setInterval timers: records [id, job]
  calls,            \* start/resume/stop/clear awaiting the remote service
  polls,            \* getAnalysisStatus requests in flight (tick, refresh)
  remote,           \* the remote service: job id -> [status, processed]
  effDeps,          \* dependencies the recovery effect last ran with
  effInterval,      \* pollingInterval captured by the registered cleanup
  app,              \* "mounted", "crashed" or "unmounted"
  persisted,        \* the object last handed to localStorage (history)
  ops,              \* operations invoked so far (bounds the exploration)
  hist,             \* history of the run, read by the properties only
  last,             \* the step just taken (history)
  currentBackend,   \* backendSwitcher.currentBackend
  selectedBackend,  \* localStorage item 'selectedBackend'
  listeners,        \* backendSwitcher.listeners, in order of registration
  baseURL,          \* api.defaults.baseURL of the API client
  lastSet           \* the last setBackend call: name asked, listeners called

vars == <<analysisStatus, pollingInterval, storage, timers, calls, polls,
          remote, effDeps, effInterval, app, persisted, ops, hist, last,
          currentBackend, selectedBackend, listeners, baseURL, lastSet>>

switcher == <<currentBackend, selectedBackend, listeners, baseURL, lastSet>>

\* ---------------------------------------------------------------- values
Null == [null |-> TRUE]
NoItem == [item |-> "none"]
Malformed == [item |-> "text", text |-> <<"{">>]

KeyOrder == <<"analysis_id", "status", "progress", "total_comments",
              "processed_comments", "error_message">>

StatusOf(a) == IF "status" \in DOMAIN a THEN a.status ELSE ""
IdOf(a) == IF "analysis_id" \in DOMAIN a THEN a.analysis_id ELSE NoId
ProcessedOf(a) == IF "processed_comments" \in DOMAIN a THEN a.processed_comments ELSE 0

isAnalysisRunning == StatusOf(analysisStatus) = "processing"
canResumeAnyStopped == StatusOf(analysisStatus) = "stopped"

canResume == StatusOf(analysisStatus) = "stopped" /\ ProcessedOf(analysisStatus) > 0

\* JSON.stringify of a job: the members in key order, as text.
RECURSIVE Members(_, _)
Members(job, i) ==
  IF i > Len(KeyOrder) THEN <<>>
  ELSE IF KeyOrder[i] \in DOMAIN job
       THEN <<<<KeyOrder[i], job[KeyOrder[i]]>>>> \o Members(job, i + 1)
       ELSE Members(job, i + 1)

StringifyShort(job) ==
  [item |-> "text", text |-> <<"{">> \o SubSeq(Members(job, 1), 1, 4) \o <<"}">>]

Stringify(job) == [item |-> "text", text |-> <<"{">> \o Members(job, 1) \o <<"}">>]

WellFormed(text) ==
  /\ Len(text) >= 2
  /\ text[1] = "{"
  /\ text[Len(text)] = "}"

\* JSON.parse of a well-formed text: the object with the members read.
Parse(text) ==
  LET body == SubSeq(text, 2, Len(text) - 1)
      keys == {body[i][1] : i \in 1..Len(body)}
  IN [k \in keys |-> body[CHOOSE i \in 1..Len(body) : body[i][1] = k][2]]

\* useState initializer: saved ? JSON.parse(saved) : null
Rehydrate(saved) ==
  IF saved = NoItem THEN Null ELSE Parse(saved.text)

Ev(op, ok, raised) == [op |-> op, ok |-> ok, raised |-> raised]

\* ------------------------------------------------------- remote service
NoJob == [status |-> "none", processed |-> 0]

Pct(n) == (n * 100) \div MaxUnits

StatusRecord(j) ==
  LET base == [analysis_id |-> j, status |-> remote[j].status,
               progress |-> Pct(remote[j].processed),
               total_comments |-> MaxUnits,
               processed_comments |-> remote[j].processed]
  IN IF remote[j].status = "failed"
     THEN [k \in DOMAIN base \cup {"error_message"} |->
             IF k = "error_message" THEN "error" ELSE base[k]]
     ELSE base

\* the service numbers its jobs: the next id is the first one not yet used
Fresh ==
  LET free == {i \in 1..Len(JobName) : remote[JobName[i]].status = "none"}
  IN IF free = {} THEN {}
     ELSE {JobName[CHOOSE i \in free : \A k \in free : i <= k]}

\* POST /api/analysis/stop/{id}
RemoteStop(j) ==
  IF j \in JobIds /\ remote[j].status = "processing"
  THEN [remote EXCEPT ![j].status = "stopping"]
  ELSE remote

\* POST /api/analysis/start {resume_analysis_id: j}, answered with job id r
RemoteResume(j, r) ==
  [remote EXCEPT ![r] = [status |-> "processing", processed |-> remote[j].processed]]

\* POST /api/analysis/start, answered with the new job id r
RemoteCreate(r) ==
  [remote EXCEPT ![r] = [status |-> "processing", processed |-> 0]]

\* ------------------------------------------------------------- timers
UsedTimers ==
  {t.id : t \in timers} \cup {pollingInterval, effInterval}
    \cup {c.timer : c \in {k \in calls : "timer" \in DOMAIN k}}

NewTimer(used) == CHOOSE n \in 1..(Cardinality(used) + 1) : n \notin used

clearInterval(ts, id) == {t \in ts : t.id # id}

Armed(id) == \E t \in timers : t.id = id

\* A request in flight keeps the handle of its timer only while that timer
\* is armed: clearInterval on a cleared handle does nothing, so all cleared
\* handles are one value.
Settle(ps, ts) ==
  {[p EXCEPT !.timer = IF \E t \in ts : t.id = @ THEN @ ELSE NoTimer] : p \in ps}

\* the requests of the timer that stopAnalysis/clearAnalysis cancels
Retire(ps, id) ==
  {[p EXCEPT !.retired = @ \/ (id # NoTimer /\ p.timer = id)] : p \in ps}

\* ----------------------------------------------------- backend switcher
BACKEND_CONFIGS ==
  <<[name |-> "OpenAI", url |-> "http://localhost:8000", port |-> 8000],
    [name |-> "Hugging Face", url |-> "http://localhost:8001", port |-> 8001]>>

BackendNames == {BACKEND_CONFIGS[i].name : i \in 1..Len(BACKEND_CONFIGS)}

\* what Array.prototype.find returns when no element matches
NoBackend == [name |-> ""]

FindOrFirst(name) ==
  LET hits == {i \in 1..Len(BACKEND_CONFIGS) : BACKEND_CONFIGS[i].name = name}
  IN IF hits = {} THEN BACKEND_CONFIGS[1]
     ELSE BACKEND_CONFIGS[CHOOSE i \in hits : \A k \in hits : i <= k]

\* BACKEND_CONFIGS.find(b => b.name === name)
Find(name) ==
  LET hits == {i \in 1..Len(BACKEND_CONFIGS) : BACKEND_CONFIGS[i].name = name}
  IN IF hits = {} THEN NoBackend
     ELSE BACKEND_CONFIGS[CHOOSE i \in hits : \A k \in hits : i <= k]

\* JSON.stringify(backend)
StringifyBackend(b) ==
  [item |-> "text",
   text |-> <<"{", <<"name", b.name>>, <<"url", b.url>>, <<"port", b.port>>, "}">>]

LoadBackendAsSaved(saved) ==
  IF saved = NoItem \/ ~WellFormed(saved.text)
  THEN BACKEND_CONFIGS[2]
  ELSE Parse(saved.text)

\* private currentBackend = BACKEND_CONFIGS[1], then the constructor: the
\* saved text is parsed and its name looked up in BACKEND_CONFIGS; a text
\* that does not parse is caught
LoadBackend(saved) ==
  IF saved = NoItem \/ ~WellFormed(saved.text)
  THEN BACKEND_CONFIGS[2]
  ELSE LET parsed == Parse(saved.text)
           found == Find(IF "name" \in DOMAIN parsed THEN parsed.name ELSE "")
       IN IF found # NoBackend THEN found ELSE BACKEND_CONFIGS[2]

\* the listener api.ts registers when the module is loaded
ApiListener == "api"

\* handleBackendChange, registered by the effect of the Analysis page
PageListener == "page"

\* nothing was asked of setBackend yet
NoSet == [name |-> "", notified |-> <<>>]

\* listeners.forEach(listener => listener(backend)): the listener of api.ts
\* assigns api.defaults.baseURL = backend.url
NotifyListeners(backend) ==
  baseURL' = IF \E i \in 1..Len(listeners) : listeners[i] = ApiListener
             THEN backend.url ELSE baseURL

\* backendSwitcher.setBackend(backendName); TRUE in the result is `return true`
setBackend(backendName) ==
  LET backend == Find(backendName) IN
  IF backend # NoBackend
  THEN /\ currentBackend' = backend
       /\ selectedBackend' = StringifyBackend(backend)
       /\ NotifyListeners(backend)
       /\ lastSet' = [name |-> backendName, notified |-> listeners]
       /\ UNCHANGED listeners
  ELSE /\ lastSet' = [name |-> backendName, notified |-> <<>>]
       /\ UNCHANGED <<currentBackend, selectedBackend, listeners, baseURL>>

SetBackendResult(backendName) == Find(backendName) # NoBackend

\* ------------------------------------------------------------- effects
Deps(a) == <<StatusOf(a), IdOf(a)>>
NotRun == <<"not-run", NoId>>

EffectsPending ==
  app = "mounted" /\ (effDeps # Deps(analysisStatus) \/ effInterval # pollingInterval)

Ready == app = "mounted" /\ ~EffectsPending

\* Continuations and timer callbacks run between two commits of the mounted
\* provider, and also after it was unmounted: the setters of an unmounted
\* component have no observable effect, the variables then keep the value
\* the setter was given.
Running == Ready \/ app = "unmounted"

\* a handler of the committed render is invoked
Invoke ==
  /\ Ready
  /\ ops < MaxUserOps
  /\ ops' = ops + 1

\* ------------------------------------------------------------- history
\* cleared: clearAnalysis completed and no start succeeded since
\* terminalSeen: a tick observed a terminal status, no start or resume since
\* resumed: the id the last successful resume returned
\* quiet: a start succeeded in the mounted provider with nothing else in
\*        flight; no request failed and no operation but refreshStatus was
\*        invoked since
\* replaced: the id of the job that the last successful start replaced
\* stopped: "calling" while stopAnalysis awaits its remote call, "done" once
\*          it completed, "restarted" once the page was reloaded after
\*          that; "no" as soon as another operation is invoked, the store
\*          is written or a timer is armed
\* switchStops: the remote stop calls issued by the last model switch
NoHist ==
  [cleared |-> FALSE, terminalSeen |-> FALSE, resumed |-> NoId,
   quiet |-> FALSE, replaced |-> NoId, stopped |-> "no", switchStops |-> 0]

\* ---------------------------------------------------------------- Init
\* What an earlier session can have left behind: nothing, a text that is
\* not JSON, or a job it persisted, with the service holding that job.
Job(id, status, n) ==
  [analysis_id |-> id, status |-> status, progress |-> Pct(n),
   total_comments |-> MaxUnits, processed_comments |-> n]

\* 'selectedBackend' as an earlier version of BACKEND_CONFIGS wrote it
StaleBackend ==
  [item |-> "text",
   text |-> <<"{", <<"name", "OpenAI">>, <<"url", "http://localhost:5000">>,
              <<"port", 5000>>, "}">>]

UnknownBackend ==
  [item |-> "text",
   text |-> <<"{", <<"name", "Local">>, <<"url", "http://localhost:9000">>,
              <<"port", 9000>>, "}">>]

Earlier ==
  {[saved |-> NoItem, job |-> Null, service |-> NoJob, backend |-> NoItem],
   [saved |-> NoItem, job |-> Null, service |-> NoJob, backend |-> Malformed],
   [saved |-> NoItem, job |-> Null, service |-> NoJob, backend |-> StaleBackend],
   [saved |-> Malformed, job |-> Null, service |-> NoJob, backend |-> NoItem],
   [saved |-> Stringify(Job("A", "processing", 0)), job |-> Job("A", "processing", 0),
    service |-> [status |-> "processing", processed |-> 0],
    backend |-> StringifyBackend(BACKEND_CONFIGS[1])],
   [saved |-> Stringify(Job("A", "stopped", 1)), job |-> Job("A", "stopped", 1),
    service |-> [status |-> "stopped", processed |-> 1],
    backend |-> UnknownBackend]}

Init ==
  /\ \E e \in Earlier :
       /\ storage = e.saved
       /\ persisted = e.job
       /\ remote = [j \in JobIds |-> IF j = "A" THEN e.service ELSE NoJob]
       /\ app = IF e.saved = Malformed THEN "crashed" ELSE "mounted"
       /\ analysisStatus = IF e.saved = Malformed THEN Null ELSE Rehydrate(e.saved)
       /\ last = Ev("mount", e.saved # Malformed, e.saved = Malformed)
       /\ selectedBackend = e.backend
       /\ currentBackend = LoadBackend(e.backend)
       /\ baseURL = LoadBackend(e.backend).url
  /\ listeners = <<ApiListener>>
  /\ lastSet = NoSet
  /\ pollingInterval = NoTimer
  /\ timers = {}
  /\ calls = {}
  /\ polls = {}
  /\ effDeps = NotRun
  /\ effInterval = NoTimer
  /\ ops = 0
  /\ hist = NoHist

\* ------------------------------------------------ operations of the store
WriteJobInMemory(job) ==
  /\ analysisStatus' = job
  /\ persisted' = job
  /\ UNCHANGED storage

\* setAnalysisStatus(job); localStorage.setItem('analysisStatus', JSON.stringify(job))
WriteJob(job) ==
  /\ analysisStatus' = job
  /\ storage' = Stringify(job)
  /\ persisted' = job

\* setAnalysisStatus(null); localStorage.removeItem('analysisStatus')
RemoveJob ==
  /\ analysisStatus' = Null
  /\ storage' = NoItem
  /\ persisted' = Null

DropJob ==
  /\ analysisStatus' = Null
  /\ storage' = NoItem
  /\ persisted' = Null

KeepJob == UNCHANGED <<analysisStatus, storage, persisted>>

\* startPolling(analysisId): setInterval(...) and setPollingInterval(interval)
startPolling(ts, analysisId) ==
  LET t == NewTimer(UsedTimers) IN
  /\ timers' = ts \cup {[id |-> t, job |-> analysisId]}
  /\ pollingInterval' = t

\* if (pollingInterval) { clearInterval(pollingInterval); setPollingInterval(null) }
StopPollingNow ==
  /\ timers' = clearInterval(timers, pollingInterval)
  /\ pollingInterval' = NoTimer

\* ---------------------------------------------------------- startAnalysis
NewStatusPending(id) ==
  [analysis_id |-> id, status |-> "pending", progress |-> 0,
   total_comments |-> 0, processed_comments |-> 0]

NewStatus(id) ==
  [analysis_id |-> id, status |-> "processing", progress |-> 0,
   total_comments |-> 0, processed_comments |-> 0]

StartCall ==
  /\ Invoke
  /\ Cardinality(calls) < MaxPending
  /\ \E ok \in BOOLEAN : \E rid \in Fresh \cup {NoId} :
       /\ ~ok => rid = NoId
       /\ remote' = IF rid # NoId THEN RemoteCreate(rid) ELSE remote
       /\ calls' = calls \cup {[op |-> "start", snap |-> analysisStatus,
                                ok |-> ok, rid |-> rid]}
  /\ last' = Ev("startCall", TRUE, FALSE)
  /\ hist' = [hist EXCEPT !.quiet = FALSE, !.stopped = "no"]
  /\ UNCHANGED <<analysisStatus, pollingInterval, storage, timers, polls,
                 effDeps, effInterval, app, persisted>>
  /\ UNCHANGED switcher

SucceededAnyway(c) == TRUE

\* the try block ran to the write: no rejection and if (result.analysis_id)
Succeeded(c) == c.ok /\ c.rid # NoId

StartReturn ==
  /\ Running
  /\ \E c \in calls :
       /\ c.op = "start"
       /\ calls' = calls \ {c}
       /\ IF Succeeded(c)
          THEN /\ WriteJob(NewStatus(c.rid))
               /\ startPolling(timers, c.rid)
               /\ hist' = [NoHist EXCEPT
                            !.quiet = (app = "mounted" /\ calls = {c} /\ polls = {}),
                            !.replaced = IF IdOf(analysisStatus) # c.rid
                                         THEN IdOf(analysisStatus) ELSE NoId]
          ELSE /\ KeepJob
               /\ UNCHANGED <<timers, pollingInterval, hist>>
       /\ last' = Ev("startReturn", Succeeded(c), ~c.ok)
  /\ UNCHANGED <<polls, remote, effDeps, effInterval, app, ops>>
  /\ UNCHANGED switcher

\* --------------------------------------------------------- resumeAnalysis
ResumedStatusReset(snap) ==
  [snap EXCEPT !.status = "processing", !.processed_comments = 0]

\* { ...analysisStatus, status: 'processing' }
ResumedStatus(snap) == [snap EXCEPT !.status = "processing"]

\* if (!analysisStatus?.analysis_id) throw new Error('No analysis to resume')
ResumeGuard(a) == IdOf(a) # NoId

ResumeCall ==
  /\ Invoke
  /\ Cardinality(calls) < MaxPending
  /\ IF ~ResumeGuard(analysisStatus)
     THEN /\ last' = Ev("resumeCall", FALSE, TRUE)
          /\ UNCHANGED <<calls, remote>>
     ELSE /\ \E ok \in BOOLEAN : \E rid \in Fresh \cup {IdOf(analysisStatus), NoId} :
               /\ ~ok => rid = NoId
               /\ (ok /\ rid # NoId) => remote[IdOf(analysisStatus)].status # "none"
               /\ remote' = IF rid # NoId
                            THEN RemoteResume(IdOf(analysisStatus), rid)
                            ELSE remote
               /\ calls' = calls \cup {[op |-> "resume", snap |-> analysisStatus,
                                        ok |-> ok, rid |-> rid]}
          /\ last' = Ev("resumeCall", TRUE, FALSE)
  /\ hist' = [hist EXCEPT !.quiet = FALSE, !.stopped = "no"]
  /\ UNCHANGED <<analysisStatus, pollingInterval, storage, timers, polls,
                 effDeps, effInterval, app, persisted>>
  /\ UNCHANGED switcher

ResumedAnyway(c) == TRUE

\* the try block ran to the write: no rejection and if (result.analysis_id)
Resumed(c) == c.ok /\ c.rid # NoId

ResumeReturn ==
  /\ Running
  /\ \E c \in calls :
       /\ c.op = "resume"
       /\ calls' = calls \ {c}
       /\ IF Resumed(c)
          THEN /\ WriteJob(ResumedStatus(c.snap))
               /\ startPolling(timers, c.rid)
               /\ hist' = [hist EXCEPT !.terminalSeen = FALSE, !.resumed = c.rid,
                                        !.stopped = "no"]
          ELSE /\ KeepJob
               /\ UNCHANGED <<timers, pollingInterval, hist>>
       /\ last' = Ev("resumeReturn", Resumed(c), ~c.ok)
  /\ UNCHANGED <<polls, remote, effDeps, effInterval, app, ops>>
  /\ UNCHANGED switcher

\* ----------------------------------------------------------- stopAnalysis
StoppedStatusKept(snap) == snap

\* { ...analysisStatus, status: 'stopped' }
StoppedStatus(snap) == [snap EXCEPT !.status = "stopped"]

StopResultNoFallback(c) == IF c.ok THEN StoppedStatus(c.snap) ELSE c.snap

\* the job written after the await: by the try block, or by the catch block
StopResult(c) == IF c.ok THEN StoppedStatus(c.snap) ELSE StoppedStatus(c.snap)

StopNeededForAny(a) == IdOf(a) # NoId

\* if (analysisStatus?.status === 'processing' && analysisStatus.analysis_id)
StopNeeded(a) == StatusOf(a) = "processing" /\ IdOf(a) # NoId

StopCall ==
  /\ Invoke
  /\ Cardinality(calls) < MaxPending
  /\ StopPollingNow
  /\ polls' = Settle(Retire(polls, pollingInterval), timers')
  /\ IF StopNeeded(analysisStatus)
     THEN /\ \E ok \in BOOLEAN :
               /\ remote' = IF ok THEN RemoteStop(IdOf(analysisStatus)) ELSE remote
               /\ calls' = calls \cup {[op |-> "stop", snap |-> analysisStatus,
                                        ok |-> ok, rid |-> NoId]}
          /\ hist' = [hist EXCEPT !.quiet = FALSE, !.stopped = "calling"]
          /\ last' = Ev("stopCall", TRUE, FALSE)
     ELSE /\ UNCHANGED <<calls, remote>>
          /\ hist' = [hist EXCEPT !.quiet = FALSE]
          /\ last' = Ev("stopNoop", TRUE, FALSE)
  /\ UNCHANGED <<analysisStatus, storage, effDeps, effInterval, app, persisted>>
  /\ UNCHANGED switcher

StopReturn ==
  /\ Running
  /\ \E c \in calls :
       /\ c.op = "stop"
       /\ calls' = calls \ {c}
       /\ WriteJob(StopResult(c))
       /\ last' = Ev("stopReturn", c.ok, FALSE)
  /\ hist' = [hist EXCEPT !.stopped = IF @ = "calling" THEN "done" ELSE "no"]
  /\ UNCHANGED <<pollingInterval, timers, polls, remote, effDeps, effInterval, app, ops>>
  /\ UNCHANGED switcher

\* ---------------------------------------------------------- clearAnalysis
\* if (analysisStatus?.status === 'processing' && analysisStatus.analysis_id)
ClearNeeded(a) == StatusOf(a) = "processing" /\ IdOf(a) # NoId

ClearCall ==
  /\ Invoke
  /\ Cardinality(calls) < MaxPending
  /\ StopPollingNow
  /\ polls' = Settle(Retire(polls, pollingInterval), timers')
  /\ IF ClearNeeded(analysisStatus)
     THEN /\ \E ok \in BOOLEAN :
               /\ remote' = IF ok THEN RemoteStop(IdOf(analysisStatus)) ELSE remote
               /\ calls' = calls \cup {[op |-> "clear", snap |-> analysisStatus,
                                        ok |-> ok, rid |-> NoId]}
          /\ KeepJob
          /\ hist' = [hist EXCEPT !.quiet = FALSE, !.stopped = "no"]
          /\ last' = Ev("clearCall", TRUE, FALSE)
     ELSE /\ UNCHANGED <<calls, remote>>
          /\ RemoveJob
          /\ hist' = [NoHist EXCEPT !.cleared = TRUE,
                                   !.terminalSeen = hist.terminalSeen]
          /\ last' = Ev("clearNow", TRUE, FALSE)
  /\ UNCHANGED <<effDeps, effInterval, app>>
  /\ UNCHANGED switcher

ClearReturn ==
  /\ Running
  /\ \E c \in calls :
       /\ c.op = "clear"
       /\ calls' = calls \ {c}
       /\ RemoveJob
       /\ hist' = [NoHist EXCEPT !.cleared = TRUE,
                                !.terminalSeen = hist.terminalSeen]
       /\ last' = Ev("clearReturn", c.ok, FALSE)
  /\ UNCHANGED <<pollingInterval, timers, polls, remote, effDeps, effInterval, app, ops>>
  /\ UNCHANGED switcher

\* ------------------------------------------------------------ the Poller
Terminal == {"completed", "failed", "stopped", "stopping"}

\* One firing of the setInterval callback, up to its await.  A timer fires
\* a whole period after it was armed and the effects of a commit are
\* flushed within the frame, so a firing falls between two commits.
Tick ==
  /\ Running
  /\ Cardinality({p \in polls : p.src = "tick"}) < MaxPending
  /\ \E t \in timers : \E ok \in BOOLEAN :
       /\ ok => remote[t.job].status # "none"
       /\ hist' = [hist EXCEPT !.quiet = @ /\ ok]
       /\ polls' = polls \cup {[src |-> "tick", timer |-> t.id, job |-> t.job, ok |-> ok,
                                resp |-> IF ok THEN StatusRecord(t.job) ELSE Null,
                                retired |-> FALSE]}
  /\ last' = Ev("tick", TRUE, FALSE)
  /\ UNCHANGED <<analysisStatus, pollingInterval, storage, timers, calls,
                 remote, effDeps, effInterval, app, ops, persisted>>
  /\ UNCHANGED switcher

TickRecordStatusOnly(a, resp) ==
  IF a = Null THEN resp ELSE [a EXCEPT !.status = resp.status]

\* setAnalysisStatus(status); localStorage.setItem(..., JSON.stringify(status))
TickRecord(a, resp) == resp

KeepPollingOf(id) == UNCHANGED <<timers, pollingInterval>>

\* clearInterval(interval); setPollingInterval(null)
StopPollingOf(id) ==
  /\ timers' = clearInterval(timers, id)
  /\ pollingInterval' = NoTimer

\* the rest of the callback, once getAnalysisStatus settled
TickReturn ==
  /\ Running
  /\ \E p \in polls :
       /\ p.src = "tick"
       /\ IF p.ok
          THEN /\ WriteJob(TickRecord(analysisStatus, p.resp))
               /\ IF p.resp.status \in Terminal
                  THEN StopPollingOf(p.timer)
                  ELSE UNCHANGED <<timers, pollingInterval>>
          ELSE /\ KeepJob
               /\ StopPollingOf(p.timer)
       /\ polls' = Settle(polls \ {p}, timers')
       /\ hist' = [hist EXCEPT !.terminalSeen = @ \/ (p.ok /\ p.resp.status \in Terminal),
                            !.stopped = IF p.ok THEN "no" ELSE @]
       /\ last' = Ev("tickReturn", p.ok, FALSE)
  /\ UNCHANGED <<calls, remote, effDeps, effInterval, app, ops>>
  /\ UNCHANGED switcher

\* ---------------------------------------------------------- refreshStatus
RefreshCall ==
  /\ Invoke
  /\ IF IdOf(analysisStatus) # NoId
     THEN /\ Cardinality({p \in polls : p.src = "refresh"}) < MaxPending
          /\ \E ok \in BOOLEAN :
               /\ ok => remote[IdOf(analysisStatus)].status # "none"
               /\ hist' = [hist EXCEPT !.quiet = @ /\ ok]
               /\ polls' = polls \cup
                    {[src |-> "refresh", timer |-> NoTimer, job |-> IdOf(analysisStatus),
                      ok |-> ok,
                      resp |-> IF ok THEN StatusRecord(IdOf(analysisStatus)) ELSE Null,
                      retired |-> FALSE]}
          /\ last' = Ev("refreshCall", TRUE, FALSE)
     ELSE /\ UNCHANGED <<polls, hist>>
          /\ last' = Ev("refreshNoop", TRUE, FALSE)
  /\ UNCHANGED <<analysisStatus, pollingInterval, storage, timers, calls,
                 remote, effDeps, effInterval, app, persisted>>
  /\ UNCHANGED switcher

RefreshedAnyway(p) == TRUE

\* the await of getAnalysisStatus did not reject
Refreshed(p) == p.ok

RefreshReturn ==
  /\ Running
  /\ \E p \in polls :
       /\ p.src = "refresh"
       /\ polls' = polls \ {p}
       /\ IF Refreshed(p) THEN WriteJob(p.resp) ELSE KeepJob
       /\ hist' = [hist EXCEPT !.stopped = IF p.ok THEN "no" ELSE @]
       /\ last' = Ev("refreshReturn", p.ok, FALSE)
  /\ UNCHANGED <<pollingInterval, timers, calls, remote, effDeps, effInterval, app, ops>>
  /\ UNCHANGED switcher

\* ----------------------------------------------------------- the effects
\* The passive effects of the last commit: first the cleanup of the
\* [pollingInterval] effect of the previous render, then the recovery
\* effect when analysisStatus?.status or ?.analysis_id changed.
RecoverNeededAlways(a) == IdOf(a) # NoId

RecoverNeededWhenStopped(a) == StatusOf(a) = "stopped" /\ IdOf(a) # NoId

\* if (analysisStatus?.status === 'processing' && analysisStatus.analysis_id)
RecoverNeeded(a) == StatusOf(a) = "processing" /\ IdOf(a) # NoId

RunEffects ==
  /\ EffectsPending
  /\ LET cleaned == IF effInterval # pollingInterval /\ effInterval # NoTimer
                    THEN clearInterval(timers, effInterval)
                    ELSE timers
         recover == effDeps # Deps(analysisStatus) /\ RecoverNeeded(analysisStatus)
     IN /\ effInterval' = pollingInterval
        /\ effDeps' = Deps(analysisStatus)
        /\ IF recover
           THEN startPolling(cleaned, IdOf(analysisStatus))
           ELSE /\ timers' = cleaned
                /\ pollingInterval' = pollingInterval
        /\ polls' = Settle(polls, timers')
        /\ hist' = [hist EXCEPT !.stopped = IF recover THEN "no" ELSE @]
        /\ last' = Ev("effects", recover, FALSE)
  /\ listeners' = IF effDeps = NotRun THEN Append(listeners, PageListener) ELSE listeners
  /\ UNCHANGED <<analysisStatus, storage, calls, remote, app, ops, persisted,
                 currentBackend, selectedBackend, baseURL, lastSet>>

\* ------------------------------------------------- reload of the page
Restart ==
  /\ ops < MaxUserOps
  /\ ops' = ops + 1
  /\ calls' = {}
  /\ polls' = {}
  /\ timers' = {}
  /\ pollingInterval' = NoTimer
  /\ effDeps' = NotRun
  /\ effInterval' = NoTimer
  /\ IF storage = NoItem \/ WellFormed(storage.text)
     THEN /\ analysisStatus' = Rehydrate(storage)
          /\ app' = "mounted"
          /\ last' = Ev("restart", TRUE, FALSE)
     ELSE /\ analysisStatus' = Null
          /\ app' = "crashed"
          /\ last' = Ev("restart", FALSE, TRUE)
  /\ hist' = [NoHist EXCEPT !.cleared = hist.cleared,
                          !.terminalSeen = hist.terminalSeen,
                          !.stopped = IF hist.stopped = "done"
                                      THEN "restarted" ELSE "no"]
  /\ currentBackend' = LoadBackend(selectedBackend)
  /\ baseURL' = LoadBackend(selectedBackend).url
  /\ listeners' = <<ApiListener>>
  /\ lastSet' = NoSet
  /\ UNCHANGED <<storage, remote, persisted, selectedBackend>>

\* ------------------------------------------------ unmount of the provider
\* React runs the cleanup that the [pollingInterval] effect registered when
\* it last ran: if (pollingInterval) clearInterval(pollingInterval), with
\* the pollingInterval of that render.
Unmount ==
  /\ app = "mounted"
  /\ ops < MaxUserOps
  /\ ops' = ops + 1
  /\ app' = "unmounted"
  /\ timers' = clearInterval(timers, effInterval)
  /\ polls' = Settle(polls, timers')
  /\ hist' = [hist EXCEPT !.quiet = FALSE, !.stopped = "no"]
  /\ last' = Ev("unmount", TRUE, FALSE)
  /\ listeners' = SelectSeq(listeners, LAMBDA l : l # PageListener)
  /\ UNCHANGED <<analysisStatus, pollingInterval, storage, calls, remote,
                 effDeps, effInterval, persisted,
                 currentBackend, selectedBackend, baseURL, lastSet>>

\* ------------------------------------------- backendSwitcher.setBackend
\* a call of the exported singleton's method with any name
SetBackend ==
  /\ Invoke
  /\ \E backendName \in BackendNames \cup {"Local"} :
       /\ setBackend(backendName)
       /\ last' = Ev("setBackend", SetBackendResult(backendName), FALSE)
  /\ UNCHANGED <<analysisStatus, pollingInterval, storage, timers, calls, polls,
                 remote, effDeps, effInterval, app, persisted>>
  /\ hist' = [hist EXCEPT !.quiet = FALSE]

\* --------------------------------------- ModelSwitcher.handleModelSwitch
\* The handler closes over analysisStatus, stopAnalysis and clearAnalysis of
\* the render it was created in: both operations see the job and the timer
\* handle of that render.
Switching == \E c \in calls : c.op \in {"switchStop", "switchClear"}

\* const backendName = isHF ? 'Hugging Face' : 'OpenAI', isHF being the new
\* position of the switch, which shows the current backend
Toggled(backend) ==
  IF backend.name = "Hugging Face" THEN "OpenAI" ELSE "Hugging Face"

\* if (analysisStatus?.status === 'processing')
SwitchStopsFirst(a) == StatusOf(a) = "processing"

\* the cancel step of clearAnalysis() with the pollingInterval of the closure
StopPollingAgain(id) ==
  /\ timers' = clearInterval(timers, id)
  /\ pollingInterval' = IF id # NoTimer THEN NoTimer ELSE pollingInterval

\* setIsSwitching(true), then up to the first await that leaves the handler
SwitchCall ==
  /\ Invoke
  /\ ~Switching
  /\ Cardinality(calls) < MaxPending
  /\ LET backendName == Toggled(currentBackend) IN
     IF SwitchStopsFirst(analysisStatus) /\ StopNeeded(analysisStatus)
     THEN \* await stopAnalysis(), up to its remote call
          /\ StopPollingNow
          /\ polls' = Settle(Retire(polls, pollingInterval), timers')
          /\ \E ok \in BOOLEAN :
               /\ remote' = IF ok THEN RemoteStop(IdOf(analysisStatus)) ELSE remote
               /\ calls' = calls \cup {[op |-> "switchStop", snap |-> analysisStatus,
                                        ok |-> ok, rid |-> NoId,
                                        timer |-> pollingInterval, to |-> backendName]}
          /\ KeepJob
          /\ hist' = [hist EXCEPT !.quiet = FALSE, !.stopped = "no", !.switchStops = 1]
          /\ last' = Ev("switchCall", TRUE, FALSE)
          /\ UNCHANGED switcher
     ELSE IF SwitchStopsFirst(analysisStatus)
     THEN \* stopAnalysis() and clearAnalysis() issue no remote call
          /\ StopPollingNow
          /\ polls' = Settle(Retire(polls, pollingInterval), timers')
          /\ RemoveJob
          /\ setBackend(backendName)
          /\ hist' = [NoHist EXCEPT !.cleared = TRUE,
                                   !.terminalSeen = hist.terminalSeen]
          /\ last' = Ev("switchNow", SetBackendResult(backendName), FALSE)
          /\ UNCHANGED <<calls, remote>>
     ELSE /\ setBackend(backendName)
          /\ KeepJob
          /\ hist' = [hist EXCEPT !.quiet = FALSE, !.switchStops = 0]
          /\ last' = Ev("switchNow", SetBackendResult(backendName), FALSE)
          /\ UNCHANGED <<timers, pollingInterval, polls, calls, remote>>
  /\ UNCHANGED <<effDeps, effInterval, app>>

\* the rest of stopAnalysis() once its remote call settled, then
\* clearAnalysis() of the same closure, up to its remote call
SwitchStopReturn ==
  /\ Running
  /\ \E c \in calls :
       /\ c.op = "switchStop"
       /\ StopPollingAgain(c.timer)
       /\ polls' = Settle(Retire(polls, c.timer), timers')
       /\ IF ClearNeeded(c.snap)
          THEN /\ WriteJob(StopResult(c))
               /\ \E ok \in BOOLEAN :
                    /\ remote' = IF ok THEN RemoteStop(IdOf(c.snap)) ELSE remote
                    /\ calls' = (calls \ {c}) \cup {[c EXCEPT !.op = "switchClear", !.ok = ok]}
               /\ hist' = [hist EXCEPT !.stopped = "no", !.switchStops = @ + 1]
               /\ last' = Ev("switchStopReturn", c.ok, FALSE)
               /\ UNCHANGED switcher
          ELSE /\ RemoveJob
               /\ setBackend(c.to)
               /\ calls' = calls \ {c}
               /\ hist' = [NoHist EXCEPT !.cleared = TRUE,
                                        !.terminalSeen = hist.terminalSeen,
                                        !.switchStops = hist.switchStops]
               /\ last' = Ev("switchDone", SetBackendResult(c.to), FALSE)
               /\ UNCHANGED remote
  /\ UNCHANGED <<effDeps, effInterval, app, ops>>

\* the rest of clearAnalysis() once its remote call settled, then
\* backendSwitcher.setBackend(backendName)
SwitchClearReturn ==
  /\ Running
  /\ \E c \in calls :
       /\ c.op = "switchClear"
       /\ calls' = calls \ {c}
       /\ RemoveJob
       /\ setBackend(c.to)
       /\ hist' = [NoHist EXCEPT !.cleared = TRUE,
                                !.terminalSeen = hist.terminalSeen,
                                !.switchStops = hist.switchStops]
       /\ last' = Ev("switchDone", SetBackendResult(c.to), FALSE)
  /\ UNCHANGED <<pollingInterval, timers, polls, remote, effDeps, effInterval, app, ops>>

\* ------------------------------------------------------ remote service
Watched ==
  {IdOf(analysisStatus)} \cup {t.job : t \in timers}
    \cup {c.rid : c \in calls} \cup {IdOf(c.snap) : c \in calls}

RemoteProgress ==
  /\ \E j \in JobIds \cap Watched :
       /\ remote[j].status = "processing"
       /\ remote[j].processed < MaxUnits
       /\ remote' = [remote EXCEPT ![j].processed = @ + 1]
  /\ last' = Ev("remoteProgress", TRUE, FALSE)
  /\ UNCHANGED <<hist, analysisStatus, pollingInterval, storage, timers, calls, polls,
                 effDeps, effInterval, app, ops, persisted>>
  /\ UNCHANGED switcher

RemoteFinish ==
  /\ \E j \in JobIds \cap Watched : \E s \in {"completed", "failed", "stopped"} :
       /\ CASE s = "completed" -> remote[j].status = "processing" /\ remote[j].processed = MaxUnits
            [] s = "failed" -> remote[j].status = "processing"
            [] s = "stopped" -> remote[j].status = "stopping"
       /\ remote' = [remote EXCEPT ![j].status = s]
  /\ last' = Ev("remoteFinish", TRUE, FALSE)
  /\ UNCHANGED <<hist, analysisStatus, pollingInterval, storage, timers, calls, polls,
                 effDeps, effInterval, app, ops, persisted>>
  /\ UNCHANGED switcher

Next ==
  \/ StartCall
  \/ StartReturn
  \/ ResumeCall
  \/ ResumeReturn
  \/ StopCall
  \/ StopReturn
  \/ ClearCall
  \/ ClearReturn
  \/ Tick
  \/ TickReturn
  \/ RefreshCall
  \/ RefreshReturn
  \/ RunEffects
  \/ Restart
  \/ Unmount
  \/ SetBackend
  \/ SwitchCall
  \/ SwitchStopReturn
  \/ SwitchClearReturn
  \/ RemoteProgress
  \/ RemoteFinish

Spec == Init /\ [][Next]_vars

\* The timers fire every period, the requests settle and React runs the
\* effects of a commit.
LiveSpec ==
  /\ Init
  /\ [][Next]_vars
  /\ WF_vars(Tick)
  /\ WF_vars(TickReturn)
  /\ WF_vars(RefreshReturn)
  /\ WF_vars(RunEffects)

\* ------------------------------------------------------------ properties
Returned(c, op) == c.op = op /\ calls' = calls \ {c} /\ last'.op = op \o "Return"

Delivered(p) == p.src = "tick" /\ last'.op = "tickReturn" /\ polls' = Settle(polls \ {p}, timers')

StoreSame == analysisStatus' = analysisStatus /\ storage' = storage

PollerSame == timers' = timers /\ pollingInterval' = pollingInterval

\* C1: when startAnalysis() completes after the remote create call returned
\* a job id, the job in memory and in localStorage is {that id, processing,
\* progress 0, total 0, processed 0} and the timer held in pollingInterval
\* is armed for that id.
C1_StartSuccess ==
  [][\A c \in calls :
       (Returned(c, "start") /\ c.ok /\ c.rid # NoId) =>
         /\ analysisStatus' = [analysis_id |-> c.rid, status |-> "processing",
                               progress |-> 0, total_comments |-> 0,
                               processed_comments |-> 0]
         /\ storage' # NoItem
         /\ Rehydrate(storage') = analysisStatus'
         /\ \E t \in timers' : t.id = pollingInterval' /\ t.job = c.rid]_vars

C1_Witness ==
  /\ last = Ev("startReturn", TRUE, FALSE)
  /\ analysisStatus = [analysis_id |-> "A", status |-> "processing", progress |-> 0,
                       total_comments |-> 0, processed_comments |-> 0]
  /\ \E t \in timers : t.id = pollingInterval /\ t.job = "A"

\* C2: when the remote create call of startAnalysis() is rejected, the
\* error is rethrown, the job in memory and the localStorage item are what
\* they were before the continuation ran, and no timer is armed or dropped.
C2_StartFailure ==
  [][\A c \in calls :
       (Returned(c, "start") /\ ~c.ok) =>
         (last'.raised /\ StoreSame /\ PollerSame)]_vars

C2_Witness ==
  /\ last = Ev("startReturn", FALSE, TRUE)
  /\ analysisStatus = Null
  /\ storage = NoItem
  /\ timers = {}

\* C3: when stopAnalysis() was called on a processing job, then after its
\* continuation the job in memory and in localStorage has status stopped,
\* whether the remote stop call succeeded or was rejected, and nothing is
\* thrown.
C3_StopAlwaysStops ==
  last.op \in {"stopReturn", "switchStopReturn"} =>
    /\ StatusOf(analysisStatus) = "stopped"
    /\ storage # NoItem
    /\ StatusOf(Rehydrate(storage)) = "stopped"
    /\ ~last.raised

C3_Witness ==
  /\ last = Ev("stopReturn", FALSE, FALSE)
  /\ StatusOf(analysisStatus) = "stopped"
  /\ remote[IdOf(analysisStatus)].status = "processing"

\* C4: resumeAnalysis() called when the job is not stopped, or has no
\* processed comments, throws before a remote call is issued and leaves the
\* store and the Poller as they were.
C4_ResumeGuarded ==
  [][(last'.op = "resumeCall" /\ ~canResume) =>
       (last'.raised /\ calls' = calls /\ remote' = remote /\ StoreSame /\ PollerSame)]_vars

\* C5: from the completion of clearAnalysis() until the next successful
\* start, the job is absent in memory, the localStorage item is removed and
\* no timer is armed.
C5_ClearStays ==
  hist.cleared => (analysisStatus = Null /\ storage = NoItem /\ timers = {})

\* C6: once a tick has observed completed, failed, stopped or stopping, no
\* timer fires again until a start or a resume succeeded.
C6_NoTickAfterTerminal ==
  ~(hist.terminalSeen /\ last.op = "tick")

\* C7: at most one timer is armed in every state.
C7_OnePoller ==
  Cardinality(timers) <= 1

\* C8: the response of a tick whose timer stopAnalysis() or clearAnalysis()
\* cancelled meanwhile does not write the store.
C8_RetiredDiscarded ==
  [][\A p \in polls : (Delivered(p) /\ p.retired) => StoreSame]_vars

\* C9: the synchronous part of stopAnalysis() and of clearAnalysis() leaves
\* no timer armed and no handle in pollingInterval, on every call: when the
\* remote stop call has just been issued and when none is issued, called
\* from the page or by the model switch.
C9_CancelFirst ==
  [][last'.op \in {"stopCall", "stopNoop", "clearCall", "clearNow",
                    "switchCall", "switchStopReturn"} =>
       /\ timers' = {}
       /\ pollingInterval' = NoTimer]_vars

\* C10: after a reload the job in memory equals, member by member, the
\* object last written to localStorage, and is absent when the item was
\* removed last.
C10_RoundTrip ==
  (last.op = "restart" /\ last.ok) => analysisStatus = persisted

C10_Witness ==
  /\ last = Ev("restart", TRUE, FALSE)
  /\ StatusOf(analysisStatus) = "failed"
  /\ "error_message" \in DOMAIN analysisStatus
  /\ ops > 1

\* C11: at startup a missing localStorage item and an item that is not JSON
\* both give an absent job, and the mount neither throws nor fails.
C11_StartupTolerant ==
  last.op \in {"mount", "restart"} =>
    /\ ~last.raised
    /\ app = "mounted"
    /\ (storage = NoItem \/ ~WellFormed(storage.text)) => analysisStatus = Null

\* C12: after a mount that read a processing job from localStorage, the
\* first step of the application is the recovery effect: it arms a timer for
\* the recovered analysis_id, no handler ran before it, and it issues no
\* remote create call.
C12_RecoverOnMount ==
  [][(app = "mounted" /\ effDeps = NotRun /\ StatusOf(analysisStatus) = "processing") =>
       /\ calls = {} /\ polls = {} /\ timers = {}
       /\ EffectsPending
       /\ last'.op \in {"effects", "restart", "unmount", "remoteProgress", "remoteFinish"}
       /\ last'.op = "effects" =>
            /\ \E t \in timers' : t.id = pollingInterval' /\ t.job = IdOf(analysisStatus)
            /\ calls' = {}
            /\ remote' = remote
            /\ ops' = ops]_vars

C12_Witness ==
  /\ last = Ev("effects", TRUE, FALSE)
  /\ ops = 0
  /\ timers = {[id |-> pollingInterval, job |-> "A"]}
  /\ calls = {}
  /\ remote["B"].status = "none"

\* C13: refreshStatus() asks the service for the status of the tracked
\* analysis_id exactly when a job is tracked; without a job it issues no
\* request and writes nothing; when the request fails nothing is thrown and
\* the job in memory and the localStorage item stay as they are.
C13_RefreshQuiet ==
  [][/\ last'.op \in {"refreshCall", "refreshNoop"} =>
          /\ StoreSame
          /\ calls' = calls
          /\ ~last'.raised
          /\ IF analysisStatus # Null
             THEN /\ last'.op = "refreshCall"
                  /\ \E p \in polls' : /\ polls' = polls \cup {p}
                                       /\ p.src = "refresh"
                                       /\ p.job = analysisStatus.analysis_id
             ELSE /\ last'.op = "refreshNoop"
                  /\ polls' = polls
     /\ (last'.op = "refreshReturn" /\ ~last'.ok) => (~last'.raised /\ StoreSame)]_vars

C13_Witness ==
  /\ last = Ev("refreshReturn", FALSE, FALSE)
  /\ analysisStatus # Null
  /\ storage # NoItem

\* C14: when resumeAnalysis() succeeds on a stopped job with n > 0 processed
\* comments, the job in memory and in localStorage is processing with the
\* same processed_comments and total_comments, and only a tick, a refresh or
\* another operation's continuation changes it afterwards.
C14_ResumeKeepsCounts ==
  [][/\ \A c \in calls :
          (Returned(c, "resume") /\ c.ok /\ c.rid # NoId
             /\ StatusOf(c.snap) = "stopped" /\ ProcessedOf(c.snap) > 0) =>
            /\ analysisStatus'.status = "processing"
            /\ analysisStatus'.processed_comments = c.snap.processed_comments
            /\ analysisStatus'.total_comments = c.snap.total_comments
            /\ storage' # NoItem
            /\ Rehydrate(storage') = analysisStatus'
     /\ last'.op \in {"effects", "tick", "remoteProgress", "remoteFinish"} => StoreSame]_vars

C14_Witness ==
  /\ last = Ev("resumeReturn", TRUE, FALSE)
  /\ StatusOf(analysisStatus) = "processing"
  /\ ProcessedOf(analysisStatus) = 1
  /\ analysisStatus.total_comments = MaxUnits
  /\ Rehydrate(storage) = analysisStatus

\* C15: after a successful resumeAnalysis() every status request a timer
\* issues is for the analysis_id the service returned, also when it is not
\* the analysis_id stored before the resume.
C15_PollsReturnedId ==
  [][(hist.resumed # NoId /\ last'.op = "tick") =>
       \A p \in polls' \ polls : p.job = hist.resumed]_vars

\* C16: when the status request of a tick fails, the timer that issued it is
\* cleared and pollingInterval is reset, nothing is thrown and the job in
\* memory and in localStorage stays as it was; a refreshStatus() whose
\* request succeeds writes the returned record to memory and localStorage.
C16_TickFailureCancels ==
  [][/\ \A p \in polls :
          (Delivered(p) /\ ~p.ok) =>
            /\ StoreSame
            /\ ~\E t \in timers' : t.id = p.timer
            /\ pollingInterval' = NoTimer
            /\ ~last'.raised
     /\ \A p \in polls :
          (p.src = "refresh" /\ p.ok /\ last'.op = "refreshReturn" /\ polls' = polls \ {p}) =>
            /\ analysisStatus' = p.resp
            /\ storage' # NoItem
            /\ Rehydrate(storage') = p.resp]_vars

C16_Witness ==
  /\ last = Ev("refreshReturn", TRUE, FALSE)
  /\ Ready
  /\ effDeps = <<"processing", "A">>
  /\ timers = {}
  /\ ProcessedOf(analysisStatus) = 1

\* C17: in every state of the mounted application the localStorage item
\* holds the job in memory (no item when the job is absent), and a reload
\* of the mounted application gives the job that was in memory before it.
C17_WriteThrough ==
  /\ [](app = "mounted" =>
          /\ storage = NoItem <=> analysisStatus = Null
          /\ Rehydrate(storage) = analysisStatus)
  /\ [][(last'.op = "restart" /\ app = "mounted") =>
          (last'.ok /\ analysisStatus' = analysisStatus)]_vars

C17_Witness ==
  /\ last = Ev("tickReturn", TRUE, FALSE)
  /\ storage # NoItem
  /\ Rehydrate(storage) = analysisStatus
  /\ StatusOf(analysisStatus) = "completed"

\* C18: when the remote call of resumeAnalysis() is rejected, the error is
\* rethrown, the job in memory and in localStorage is what it was before the
\* continuation ran, and no timer is armed.
C18_ResumeFailure ==
  [][\A c \in calls :
       (Returned(c, "resume") /\ ~c.ok) =>
         (last'.raised /\ StoreSame /\ PollerSame)]_vars

C18_Witness ==
  /\ last = Ev("resumeReturn", FALSE, TRUE)
  /\ StatusOf(analysisStatus) = "stopped"
  /\ ProcessedOf(analysisStatus) = 1
  /\ timers = {}

\* C19: canResume is true exactly when a job is tracked that is stopped and
\* has processed comments, and isAnalysisRunning exactly when the tracked
\* job is processing.
C19_Affordances ==
  /\ canResume <=> /\ analysisStatus # Null
                   /\ analysisStatus.status = "stopped"
                   /\ analysisStatus.processed_comments > 0
  /\ isAnalysisRunning <=> /\ analysisStatus # Null
                           /\ analysisStatus.status = "processing"

C19_Witness ==
  /\ canResume
  /\ ~isAnalysisRunning
  /\ last.op = "stopReturn"

\* C20: stopAnalysis() called without a job, or on a job that is not
\* processing, issues no remote call and leaves the job in memory and the
\* localStorage item as they are; it only clears the timer in pollingInterval.
C20_StopNoop ==
  [][(last'.op \in {"stopCall", "stopNoop"} /\ ~isAnalysisRunning) =>
       /\ last'.op = "stopNoop"
       /\ calls' = calls
       /\ remote' = remote
       /\ StoreSame
       /\ timers' = clearInterval(timers, pollingInterval)
       /\ pollingInterval' = NoTimer
       /\ ~last'.raised]_vars

C20_Witness ==
  /\ last = Ev("stopNoop", TRUE, FALSE)
  /\ StatusOf(analysisStatus) = "stopped"
  /\ storage # NoItem
  /\ ops = 2

\* C21: clearAnalysis() on a processing job issues the remote stop call for
\* the tracked analysis_id and leaves the store as it is until that call
\* settled; when the call settled, rejected or not, nothing is thrown and the
\* job is absent in memory and in localStorage.  On a job that is not
\* processing, or without a job, no remote call is issued, also when
\* clearAnalysis() is called by the model switch after its stopAnalysis().
C21_ClearStopsFirst ==
  [][/\ last'.op = "switchStopReturn" =>
          \A c \in calls' : c.op = "switchClear" => StatusOf(analysisStatus') = "processing"
     /\ last'.op \in {"clearCall", "clearNow"} =>
          IF isAnalysisRunning
          THEN /\ last'.op = "clearCall"
               /\ \E c \in calls' : /\ calls' = calls \cup {c}
                                    /\ c.op = "clear"
                                    /\ c.snap.analysis_id = analysisStatus.analysis_id
               /\ remote' \in {remote, RemoteStop(analysisStatus.analysis_id)}
               /\ StoreSame
          ELSE /\ last'.op = "clearNow"
               /\ calls' = calls
               /\ remote' = remote
     /\ \A c \in calls :
          Returned(c, "clear") =>
            (~last'.raised /\ analysisStatus' = Null /\ storage' = NoItem)]_vars

\* C22: a tick whose status request succeeded replaces the job in memory
\* and in localStorage by the returned record, as a whole: afterwards both
\* hold exactly the members of the response.
C22_TickReplaces ==
  [][\A p \in polls :
       (Delivered(p) /\ p.ok) =>
         /\ analysisStatus' = p.resp
         /\ storage' # NoItem
         /\ Rehydrate(storage') = p.resp]_vars

C22_Witness ==
  /\ last = Ev("tickReturn", TRUE, FALSE)
  /\ StatusOf(analysisStatus) = "processing"
  /\ ProcessedOf(analysisStatus) = 1
  /\ Rehydrate(storage) = analysisStatus
  /\ ops = 0

\* C24: while the stored job of one analysis_id stays processing, its
\* progress and its processed_comments never decrease.
C24_ProgressMonotonic ==
  [][(/\ StatusOf(analysisStatus) = "processing"
      /\ StatusOf(analysisStatus') = "processing"
      /\ IdOf(analysisStatus') = IdOf(analysisStatus)) =>
       /\ analysisStatus'.processed_comments >= analysisStatus.processed_comments
       /\ analysisStatus'.progress >= analysisStatus.progress]_vars

\* C25: the stored status of one analysis_id only moves forward in the
\* status state machine of the service: from pending or processing to a
\* later status, from stopping to stopped, and from stopped (or stopping)
\* onward only once resumeAnalysis() was called; a stored completed or
\* failed status never changes.
C25_StatusEdges ==
  [][(/\ analysisStatus # Null
      /\ analysisStatus' # Null
      /\ analysisStatus'.analysis_id = analysisStatus.analysis_id
      /\ analysisStatus'.status # analysisStatus.status
      /\ last'.op # "startReturn") =>
       LET resumeCalled == \/ last'.op = "resumeReturn"
                           \/ hist.resumed # NoId
                           \/ \E c \in calls : c.op = "resume"
       IN \/ /\ analysisStatus.status \in {"pending", "processing"}
             /\ analysisStatus'.status \in
                  {"processing", "completed", "failed", "stopping", "stopped"}
          \/ /\ analysisStatus.status = "stopping"
             /\ analysisStatus'.status = "stopped"
          \/ /\ analysisStatus.status \in {"stopping", "stopped"}
             /\ resumeCalled
             /\ analysisStatus'.status \in
                  {"processing", "completed", "failed", "stopping", "stopped"}]_vars

\* C26: the stored job has an error_message only when its status is failed.
C26_ErrorOnlyWhenFailed ==
  (analysisStatus # Null /\ "error_message" \in DOMAIN analysisStatus) =>
    analysisStatus.status = "failed"

\* C27: a tracked job becomes absent, in memory or in localStorage, only
\* by a step of clearAnalysis().
C27_OnlyClearRemoves ==
  [][(\/ analysisStatus # Null /\ analysisStatus' = Null
      \/ storage # NoItem /\ storage' = NoItem) =>
       last'.op \in {"clearNow", "clearReturn", "switchNow", "switchDone"}]_vars

C27_Witness ==
  /\ last = Ev("clearReturn", TRUE, FALSE)
  /\ analysisStatus = Null
  /\ storage = NoItem
  /\ remote["A"].status \in {"stopping", "stopped"}

\* C23: after a successful start, as long as no request fails and the user
\* invokes nothing but refreshStatus(): once the service shows the tracked
\* job completed or failed, the store eventually shows completed or failed
\* with no timer armed, and once it does it stays so.
Settled ==
  /\ StatusOf(analysisStatus) \in {"completed", "failed"}
  /\ timers = {}
  /\ pollingInterval = NoTimer

RemoteDone ==
  /\ IdOf(analysisStatus) \in JobIds
  /\ remote[IdOf(analysisStatus)].status \in {"completed", "failed"}

C23_SettlesAndStays ==
  /\ (hist.quiet /\ RemoteDone) ~> (~hist.quiet \/ Settled)
  /\ [][(hist.quiet /\ Settled /\ hist'.quiet) => Settled']_vars

\* C28: when the provider is unmounted, every armed timer is cleared, so
\* that no timer fires after the unmount.
C28_UnmountCancels ==
  [][last'.op = "unmount" => timers' = {}]_vars

C30_ReplacedJobSilent ==
  [][(hist.replaced # NoId /\ hist'.replaced = hist.replaced) =>
       /\ IdOf(analysisStatus') = IdOf(analysisStatus)
       /\ \A p \in polls :
            (/\ last'.op \in {"tickReturn", "refreshReturn"}
             /\ polls' = Settle(polls \ {p}, timers')
             /\ p.job = hist.replaced) => StoreSame]_vars

SameField(a, b, k) ==
  /\ (k \in DOMAIN a) = (k \in DOMAIN b)
  /\ (k \in DOMAIN a) => a[k] = b[k]

\* C31: the write of stopAnalysis() after its remote call changes only the
\* status: analysis_id, progress, processed_comments and total_comments in
\* the store right after it are those in the store right before it, also
\* when a poll response or a refresh was written during the await.
C31_StopWritesStatusOnly ==
  [][\A c \in calls :
       Returned(c, "stop") =>
         /\ StatusOf(analysisStatus') = "stopped"
         /\ \A k \in {"analysis_id", "progress", "processed_comments", "total_comments"} :
              SameField(analysisStatus', analysisStatus, k)]_vars

C32_SwitchStopsOnce ==
  [][/\ last'.op \in {"switchCall", "switchStopReturn"} =>
          (currentBackend' = currentBackend /\ baseURL' = baseURL)
     /\ hist'.switchStops <= 1
     /\ last'.op = "switchDone" =>
          /\ ~Switching'
          /\ analysisStatus' = Null
          /\ storage' = NoItem
          /\ timers' = {}
          /\ pollingInterval' = NoTimer]_vars

IsSetBackend == last'.op \in {"setBackend", "switchNow", "switchDone"}

\* C34: setBackend(name) with a name that is not configured returns false
\* and leaves the current backend, the 'selectedBackend' item, the listeners
\* and the base URL as they are, calling no listener; with a configured name
\* it returns true, makes that backend current, persists it so that a
\* reload selects it, and calls every registered listener once.
C34_SetBackend ==
  [][IsSetBackend =>
       IF lastSet'.name \notin BackendNames
       THEN /\ ~last'.ok
            /\ currentBackend' = currentBackend
            /\ selectedBackend' = selectedBackend
            /\ listeners' = listeners
            /\ baseURL' = baseURL
            /\ lastSet'.notified = <<>>
       ELSE /\ last'.ok
            /\ \E i \in 1..Len(BACKEND_CONFIGS) :
                 /\ BACKEND_CONFIGS[i].name = lastSet'.name
                 /\ currentBackend' = BACKEND_CONFIGS[i]
            /\ selectedBackend' # NoItem
            /\ WellFormed(selectedBackend'.text)
            /\ Parse(selectedBackend'.text).name = lastSet'.name
            /\ listeners' = listeners
            /\ lastSet'.notified = listeners
            /\ \A i, k \in 1..Len(listeners) : listeners[i] = listeners[k] => i = k
            /\ baseURL' = currentBackend'.url]_vars

C34_Witness ==
  /\ last = Ev("setBackend", FALSE, FALSE)
  /\ lastSet = [name |-> "Local", notified |-> <<>>]
  /\ currentBackend = BACKEND_CONFIGS[1]
  /\ selectedBackend = StringifyBackend(BACKEND_CONFIGS[1])
  /\ listeners = <<ApiListener, PageListener>>
  /\ storage = NoItem
  /\ ops = 2

\* C35: the current backend is always one of the configured backends and
\* the base URL of the API client is its URL; constructed from a missing,
\* malformed or unknown 'selectedBackend' item it is Hugging Face, and
\* constructed from an item with a configured name it is that configured
\* backend.
C35_BackendValid ==
  /\ \E i \in 1..Len(BACKEND_CONFIGS) : currentBackend = BACKEND_CONFIGS[i]
  /\ baseURL = currentBackend.url
  /\ last.op \in {"mount", "restart"} =>
       IF selectedBackend \in {NoItem, Malformed, UnknownBackend}
       THEN currentBackend.name = "Hugging Face"
       ELSE currentBackend.name = Parse(selectedBackend.text).name

C35_Witness ==
  /\ last = Ev("restart", TRUE, FALSE)
  /\ selectedBackend = UnknownBackend
  /\ currentBackend = BACKEND_CONFIGS[2]
  /\ baseURL = "http://localhost:8001"
  /\ listeners = <<ApiListener>>
  /\ ops > 0

====
